---- MODULE Spec2Model ----
(***************************************************************************)
(* hifitime: the Instant algebra of src/src/instant.rs.                    *)
(*                                                                         *)
(* An Instant is an Era (Past / Present) and a std::time::Duration         *)
(* (u64 whole seconds, u32 nanoseconds below NANOS_PER_SEC).  The          *)
(* operations are pure; every action of the state machine draws the        *)
(* operands of one operation, runs it as the code runs it and records the  *)
(* operands and the outcome.  A behaviour is one evaluation of one         *)
(* operation, started from the idle state op = "init".                     *)
(*                                                                         *)
(* Number representation.  The seconds stay far below 2^64 (MaxSecs), so   *)
(* u64 addition never overflows here.  A u32 that may exceed               *)
(* NANOS_PER_SEC (the wrapped difference of two nanosecond fields) is      *)
(* kept as [hi, lo] standing for hi * NANOS_PER_SEC + lo, with             *)
(* 2^32 = U32_HI * NANOS_PER_SEC + U32_LO.  An f64 is kept as the decimal  *)
(* it denotes at nanosecond resolution, [neg, secs, nanos] standing for    *)
(* +/- (secs + nanos * 1e-9): for the magnitudes used here the binary      *)
(* rounding error is below 1e-6 ns.                                        *)
(*                                                                         *)
(* overflow_checks is the build's integer overflow mode: with checks (a    *)
(* debug build) a u32/u64 subtraction below zero panics, without (a        *)
(* release build) it wraps.  Duration's own - and -= panic in both.        *)
(* saturating_casts is the toolchain's float-to-integer cast: saturating   *)
(* (Rust 1.45 and later), or, before that, unspecified for a value out of  *)
(* range, where the x86-64 builds keep the low 32 bits of the truncated    *)
(* value.                                                                  *)
(***************************************************************************)
EXTENDS Integers, Sequences, FiniteSets, TLC

VARIABLES op, lhs, rhs, delta, res, fres, bres, cres, overflow_checks, saturating_casts

vars == <<op, lhs, rhs, delta, res, fres, bres, cres, overflow_checks, saturating_casts>>

\* ------------------------------------------------------------------ bounds
MaxSecs == 2

NANOS_PER_SEC == 1000000000

\* 2^32 = U32_HI * NANOS_PER_SEC + U32_LO
U32_HI == 4

U32_LO == 294967296

NanosSet == {0, 1, 5, 6, 499999999, 500000000, 999999999}

Eras == {"Past", "Present"}

Durations == [secs : 0..MaxSecs, nanos : NanosSet]

Instants == [era : Eras, secs : 0..MaxSecs, nanos : NanosSet]

\* ------------------------------------------------------- std::time::Duration
\* a u32 below NANOS_PER_SEC, in the [hi, lo] form
U32(n) == [hi |-> 0, lo |-> n]

\* Duration::new(secs, nanos): the whole seconds of nanos are carried into secs
DurationNew(secs, nanos) == [secs |-> secs + nanos.hi, nanos |-> nanos.lo]

\* Duration + Duration (and +=)
DurationAdd(a, b) ==
    IF a.nanos + b.nanos >= NANOS_PER_SEC
    THEN [secs |-> a.secs + b.secs + 1, nanos |-> a.nanos + b.nanos - NANOS_PER_SEC]
    ELSE [secs |-> a.secs + b.secs, nanos |-> a.nanos + b.nanos]

\* Duration ordering: seconds, then nanoseconds
DurationCmp(a, b) ==
    IF a.secs < b.secs THEN "Less"
    ELSE IF a.secs > b.secs THEN "Greater"
    ELSE IF a.nanos < b.nanos THEN "Less"
    ELSE IF a.nanos > b.nanos THEN "Greater"
    ELSE "Equal"

\* Duration - Duration (and -=): checked, "overflow when subtracting durations"
DurationSub(a, b) ==
    IF DurationCmp(a, b) = "Less"
    THEN [underflow |-> "duration", panicked |-> TRUE, val |-> [secs |-> 0, nanos |-> 0]]
    ELSE [underflow |-> "none", panicked |-> FALSE,
          val |-> IF a.nanos >= b.nanos
                  THEN [secs |-> a.secs - b.secs, nanos |-> a.nanos - b.nanos]
                  ELSE [secs |-> a.secs - b.secs - 1,
                        nanos |-> a.nanos + NANOS_PER_SEC - b.nanos]]

\* ------------------------------------------------------ primitive integers
\* u64 a - b.  Below zero: panic with overflow checks, else the wrapped value
\* 2^64 + (a - b), kept as the negative number a - b.
SubU64(a, b, checks) ==
    IF a >= b
    THEN [underflow |-> "none", panicked |-> FALSE, val |-> a - b]
    ELSE [underflow |-> "u64", panicked |-> checks, val |-> a - b]

\* u32 a - b.  Below zero: panic with overflow checks, else 2^32 + (a - b).
SubU32(a, b, checks) ==
    IF a >= b
    THEN [underflow |-> "none", panicked |-> FALSE, val |-> U32(a - b)]
    ELSE [underflow |-> "u32", panicked |-> checks,
          val |-> [hi |-> U32_HI + ((U32_LO + a - b) \div NANOS_PER_SEC),
                   lo |-> (U32_LO + a - b) % NANOS_PER_SEC]]

\* ------------------------------------------------------------------ Instant
\* Instant::new
InstantNew(seconds, nanos, era) ==
    LET dur == DurationNew(seconds, nanos)
    IN  [era |-> era, secs |-> dur.secs, nanos |-> dur.nanos]

\* Instant::duration
duration(i) == [secs |-> i.secs, nanos |-> i.nanos]

WithDuration(i, dur) == [era |-> i.era, secs |-> dur.secs, nanos |-> dur.nanos]

NoInstant == [era |-> "Present", secs |-> 0, nanos |-> 0]

\* outcome of an operation that returns an Instant
Returned(i) == [panicked |-> FALSE, underflow |-> "none", inst |-> i]

Panicked(kind) == [panicked |-> TRUE, underflow |-> kind, inst |-> NoInstant]

FirstUnderflow(a, b) == IF a.underflow # "none" THEN a.underflow ELSE b.underflow

\* the branch condition of the era-crossing arm, as written in add and sub
CrossesEpoch(self, d) ==
    \/ d.secs >= self.secs
    \/ (d.secs >= self.secs /\ d.secs = 0 /\ d.nanos >= self.nanos)

\* the era-crossing arm: Instant::new(d.secs - self.secs, d.nanos - self.nanos, era)
CrossArm(self, d, era, checks) ==
    LET s == SubU64(d.secs, self.secs, checks)
        n == SubU32(d.nanos, self.nanos, checks)
    IN  IF s.panicked \/ n.panicked
        THEN Panicked(FirstUnderflow(s, n))
        ELSE [panicked |-> FALSE, underflow |-> FirstUnderflow(s, n),
              inst |-> InstantNew(s.val, n.val, era)]

\* the arm that stays in the era: cln.duration -= delta
ShrinkArm(self, d) ==
    LET r == DurationSub(duration(self), d)
    IN  IF r.panicked THEN Panicked(r.underflow)
        ELSE Returned(WithDuration(self, r.val))

\* the trivial arm: cln.duration += delta
GrowArm(self, d) == Returned(WithDuration(self, DurationAdd(duration(self), d)))

\* impl Add<Duration> for Instant
AddNoIdentity(self, d, checks) ==
    IF self.era = "Past"
    THEN IF CrossesEpoch(self, d)
         THEN CrossArm(self, d, "Present", checks)
         ELSE ShrinkArm(self, d)
    ELSE GrowArm(self, d)

AddDuration(self, d, checks) ==
    IF d.secs = 0 /\ d.nanos = 0
    THEN Returned(self)
    ELSE IF self.era = "Past"
         THEN IF CrossesEpoch(self, d)
              THEN CrossArm(self, d, "Present", checks)
              ELSE ShrinkArm(self, d)
         ELSE GrowArm(self, d)

\* impl Sub<Duration> for Instant
SubNoFlip(self, d, checks) ==
    IF d.secs = 0 /\ d.nanos = 0
    THEN Returned(self)
    ELSE IF self.era = "Past"
         THEN GrowArm(self, d)
         ELSE IF CrossesEpoch(self, d)
              THEN CrossArm(self, d, "Present", checks)
              ELSE ShrinkArm(self, d)

SubDuration(self, d, checks) ==
    IF d.secs = 0 /\ d.nanos = 0
    THEN Returned(self)
    ELSE IF self.era = "Past"
         THEN GrowArm(self, d)
         ELSE IF CrossesEpoch(self, d)
              THEN CrossArm(self, d, "Past", checks)
              ELSE ShrinkArm(self, d)

\* impl PartialEq for Instant
EqNoCollapse(self, other) ==
    self.secs = other.secs /\ self.nanos = other.nanos /\ self.era = other.era

Eq(self, other) ==
    LET spans_eq == self.secs = other.secs /\ self.nanos = other.nanos
    IN  IF spans_eq /\ self.secs = 0 /\ self.nanos = 0
        THEN TRUE
        ELSE spans_eq /\ self.era = other.era

\* derive(PartialOrd) for Era: Past < Present
EraCmp(a, b) ==
    IF a = b THEN "Equal" ELSE IF a = "Past" THEN "Less" ELSE "Greater"

\* derive(PartialOrd) for Instant: the fields in order, era then duration
CmpDurationFirst(self, other) ==
    IF DurationCmp(duration(self), duration(other)) # "Equal"
    THEN DurationCmp(duration(self), duration(other))
    ELSE EraCmp(self.era, other.era)

PartialCmp(self, other) ==
    IF EraCmp(self.era, other.era) # "Equal"
    THEN EraCmp(self.era, other.era)
    ELSE DurationCmp(duration(self), duration(other))

Lt(self, other) == PartialCmp(self, other) = "Less"

Le(self, other) == PartialCmp(self, other) \in {"Less", "Equal"}

Gt(self, other) == PartialCmp(self, other) = "Greater"

Ge(self, other) == PartialCmp(self, other) \in {"Greater", "Equal"}

\* ---------------------------------------------------------------------- f64
\* d.as_secs() as f64 + (d.subsec_nanos() as f64) * 1e-9
F64FromDuration(d) == [neg |-> FALSE, secs |-> d.secs, nanos |-> d.nanos]

\* -1.0 * x
F64Neg(x) == [neg |-> ~x.neg, secs |-> x.secs, nanos |-> x.nanos]

F64Zero == [neg |-> FALSE, secs |-> 0, nanos |-> 0]

F64IsZero(x) == x.secs = 0 /\ x.nanos = 0

\* f64 ==: the two zeros are equal
F64Eq(x, y) ==
    \/ F64IsZero(x) /\ F64IsZero(y)
    \/ x = y

\* f64::round of a non-negative value: to the nearest whole number, halves up
F64Round(x) == IF 2 * x.nanos >= NANOS_PER_SEC THEN x.secs + 1 ELSE x.secs

\* x as u64 of a non-negative value: the fraction is dropped
F64AsU64(x) == x.secs

\* n as u32 of a whole f64 n (here -2^32 < n < 2^32): a negative value
\* saturates to 0, or wraps to 2^32 + n on a toolchain without saturating casts
F64AsU32(n, saturating) ==
    IF n >= 0 THEN U32(n)
    ELSE IF saturating THEN U32(0)
    ELSE [hi |-> U32_HI + ((U32_LO + n) \div NANOS_PER_SEC),
          lo |-> (U32_LO + n) % NANOS_PER_SEC]

\* Instant::from_precise_seconds, for seconds >= 0
from_precise_seconds(seconds, era, saturating) ==
    LET secs_u == F64Round(seconds)
        \* (seconds - secs_u) * 1e9, a whole number of nanoseconds
        nanos  == (seconds.secs - secs_u) * NANOS_PER_SEC + seconds.nanos
    IN  InstantNew(F64AsU64(seconds), F64AsU32(nanos, saturating), era)

\* example.secs() as f64 + (example.nanos() as f64) * 1e-9
in_secs(example) == F64FromDuration(duration(example))

\* outcome of an operation that returns an f64
ReturnedF64(x) == [panicked |-> FALSE, underflow |-> "none", val |-> x]

\* a Duration difference turned into seconds, negated when asked
DeltaSecs(r, negate) ==
    IF r.panicked
    THEN [panicked |-> TRUE, underflow |-> r.underflow, val |-> F64Zero]
    ELSE ReturnedF64(IF negate THEN F64Neg(F64FromDuration(r.val))
                     ELSE F64FromDuration(r.val))

\* impl Sub<Instant> for Instant
SubInstantNoNegate(self, other) ==
    IF Eq(self, other)
    THEN ReturnedF64(F64Zero)
    ELSE IF self.era = other.era
         THEN LET delta_secs ==
                      IF Gt(self, other)
                      THEN DeltaSecs(DurationSub(duration(self), duration(other)), FALSE)
                      ELSE DeltaSecs(DurationSub(duration(other), duration(self)), FALSE)
              IN  IF self.era = "Past" /\ ~delta_secs.panicked
                  THEN ReturnedF64(F64Neg(delta_secs.val))
                  ELSE delta_secs
         ELSE LET delta_secs == F64FromDuration(DurationAdd(duration(self), duration(other)))
              IN  IF other.era = "Present"
                  THEN ReturnedF64(F64Neg(delta_secs))
                  ELSE ReturnedF64(delta_secs)

SubInstant(self, other) ==
    IF Eq(self, other)
    THEN ReturnedF64(F64Zero)
    ELSE IF self.era = other.era
         THEN LET delta_secs ==
                      IF Gt(self, other)
                      THEN DeltaSecs(DurationSub(duration(self), duration(other)), FALSE)
                      ELSE DeltaSecs(DurationSub(duration(other), duration(self)), TRUE)
              IN  IF self.era = "Past" /\ ~delta_secs.panicked
                  THEN ReturnedF64(F64Neg(delta_secs.val))
                  ELSE delta_secs
         ELSE LET delta_secs == F64FromDuration(DurationAdd(duration(self), duration(other)))
              IN  IF other.era = "Present"
                  THEN ReturnedF64(F64Neg(delta_secs))
                  ELSE ReturnedF64(delta_secs)

\* ------------------------------------------------------------ state machine
NoDuration == [secs |-> 0, nanos |-> 0]

NoCmp == [lt |-> FALSE, le |-> FALSE, gt |-> FALSE, ge |-> FALSE]

Init ==
    /\ op = "init"
    /\ lhs = NoInstant
    /\ rhs = NoInstant
    /\ delta = NoDuration
    /\ res = Returned(NoInstant)
    /\ fres = ReturnedF64(F64Zero)
    /\ bres = FALSE
    /\ cres = NoCmp
    /\ overflow_checks \in BOOLEAN
    /\ saturating_casts \in BOOLEAN

\* instant + duration
Add ==
    \E i \in Instants, d \in Durations :
        /\ op = "init"
        /\ op' = "add"
        /\ lhs' = i
        /\ delta' = d
        /\ res' = AddDuration(i, d, overflow_checks)
        /\ UNCHANGED <<rhs, fres, bres, cres, overflow_checks, saturating_casts>>

\* instant - duration
Sub ==
    \E i \in Instants, d \in Durations :
        /\ op = "init"
        /\ op' = "sub"
        /\ lhs' = i
        /\ delta' = d
        /\ res' = SubDuration(i, d, overflow_checks)
        /\ UNCHANGED <<rhs, fres, bres, cres, overflow_checks, saturating_casts>>

\* instant - instant
Diff ==
    \E i \in Instants, j \in Instants :
        /\ op = "init"
        /\ op' = "diff"
        /\ lhs' = i
        /\ rhs' = j
        /\ fres' = SubInstant(i, j)
        /\ UNCHANGED <<delta, res, bres, cres, overflow_checks, saturating_casts>>

\* instant == instant
Equals ==
    \E i \in Instants, j \in Instants :
        /\ op = "init"
        /\ op' = "eq"
        /\ lhs' = i
        /\ rhs' = j
        /\ bres' = Eq(i, j)
        /\ UNCHANGED <<delta, res, fres, cres, overflow_checks, saturating_casts>>

\* instant <, <=, >, >= instant
Compare ==
    \E i \in Instants, j \in Instants :
        /\ op = "init"
        /\ op' = "cmp"
        /\ lhs' = i
        /\ rhs' = j
        /\ cres' = [lt |-> Lt(i, j), le |-> Le(i, j), gt |-> Gt(i, j), ge |-> Ge(i, j)]
        /\ UNCHANGED <<delta, res, fres, bres, overflow_checks, saturating_casts>>

\* Instant::from_precise_seconds(in_secs, era) of example = Instant::new(s, n, era)
FromPreciseSeconds ==
    \E s \in 0..MaxSecs, n \in NanosSet, era \in Eras :
        LET example == InstantNew(s, U32(n), era)
        IN  /\ op = "init"
            /\ op' = "from_precise_seconds"
            /\ lhs' = example
            /\ res' = Returned(from_precise_seconds(in_secs(example), era, saturating_casts))
            /\ UNCHANGED <<rhs, delta, fres, bres, cres, overflow_checks, saturating_casts>>

Next == Add \/ Sub \/ Diff \/ Equals \/ Compare \/ FromPreciseSeconds

Spec == Init /\ [][Next]_vars

TypeOK ==
    /\ op \in {"init", "add", "sub", "diff", "eq", "cmp", "from_precise_seconds"}
    /\ lhs \in Instants
    /\ rhs \in Instants
    /\ delta \in Durations
    /\ res.panicked \in BOOLEAN
    /\ res.inst.era \in Eras
    /\ res.inst.nanos \in 0..(NANOS_PER_SEC - 1)
    /\ fres.val.nanos \in 0..(NANOS_PER_SEC - 1)
    /\ overflow_checks \in BOOLEAN
    /\ saturating_casts \in BOOLEAN

\* ------------------------------------------------------- signed arithmetic
\* A signed time in nanoseconds, ss * NANOS_PER_SEC + nn, as the pair with
\* nn brought into 0 .. NANOS_PER_SEC - 1.
Norm(ss, nn) == <<ss + (nn \div NANOS_PER_SEC), nn % NANOS_PER_SEC>>

\* signed offset of an instant from the epoch: Present positive, Past negative
Offset(i) == IF i.era = "Present" THEN Norm(i.secs, i.nanos) ELSE Norm(-i.secs, -i.nanos)

\* signed value of an f64 result
F64Offset(x) == IF x.neg THEN Norm(-x.secs, -x.nanos) ELSE Norm(x.secs, x.nanos)

IsZero(x) == x.secs = 0 /\ x.nanos = 0

\* |a| < |b| as (seconds, nanoseconds) magnitudes
MagLess(a, b) == a.secs < b.secs \/ (a.secs = b.secs /\ a.nanos < b.nanos)

\* x with its era exchanged
Flip(i) == [era |-> IF i.era = "Past" THEN "Present" ELSE "Past",
            secs |-> i.secs, nanos |-> i.nanos]

\* ------------------------------------------------------------------- claims

\* C1: Instant + Duration returns the instant of signed arithmetic:
\* offset(Add(i, d)) = offset(i) + d, for every instant i and duration d.
C1_AddIsSignedSum ==
    op = "add" =>
        /\ ~res.panicked
        /\ Offset(res.inst) = Norm(Offset(lhs)[1] + delta.secs, Offset(lhs)[2] + delta.nanos)

\* C2: no evaluation of Add, Subtract(i, d) or Subtract(i, j) performs an
\* unsigned subtraction with a subtrahend larger than its minuend (u64
\* seconds, u32 nanoseconds, whole Durations).
C2_NoUnsignedUnderflow ==
    /\ op \in {"add", "sub"} => res.underflow = "none"
    /\ op = "diff" => fres.underflow = "none"

\* C3: inverse consistency: Add(Subtract(i, d), d) == i and
\* Subtract(Add(i, d), d) == i under Instant equality.
C3_InverseConsistency ==
    /\ op = "sub" =>
           /\ ~res.panicked
           /\ LET back == AddDuration(res.inst, delta, overflow_checks)
              IN  ~back.panicked /\ Eq(back.inst, lhs)
    /\ op = "add" =>
           /\ ~res.panicked
           /\ LET back == SubDuration(res.inst, delta, overflow_checks)
              IN  ~back.panicked /\ Eq(back.inst, lhs)

\* C4: two instants are == if and only if their seconds and nanoseconds are
\* equal and either both magnitudes are zero or their eras are the same.
C4_EqualityIff ==
    op = "eq" =>
        (bres <=> /\ lhs.secs = rhs.secs
                  /\ lhs.nanos = rhs.nanos
                  /\ \/ IsZero(lhs) /\ IsZero(rhs)
                     \/ lhs.era = rhs.era)

C4_Witness ==
    /\ op = "eq"
    /\ IsZero(lhs) /\ IsZero(rhs)
    /\ lhs.era = "Past" /\ rhs.era = "Present"
    /\ bres

\* C5: Instant - Instant is the signed difference offset(i) - offset(j) of
\* the signed offsets from the epoch, in seconds.
C5_DiffIsSignedDifference ==
    op = "diff" =>
        /\ ~fres.panicked
        /\ F64Offset(fres.val) = Norm(Offset(lhs)[1] - Offset(rhs)[1],
                                      Offset(lhs)[2] - Offset(rhs)[2])
        /\ (lhs.era # rhs.era /\ ~Eq(lhs, rhs)) => (fres.val.neg <=> rhs.era = "Present")

C5_Witness ==
    /\ op = "diff"
    /\ lhs.era = "Past" /\ rhs.era = "Past"
    /\ MagLess(rhs, lhs)
    /\ fres.val.neg
    /\ fres.val.nanos = 999999995

\* C6: Subtract(i, j) == -Subtract(j, i), and Subtract(i, j) == 0 when i is j
\* or both are zero-magnitude instants of either era.
C6_Antisymmetry ==
    op = "diff" =>
        /\ F64Eq(fres.val, F64Neg(SubInstant(rhs, lhs).val))
        /\ (lhs = rhs \/ (IsZero(lhs) /\ IsZero(rhs))) => F64IsZero(fres.val)

C6_Witness ==
    /\ op = "diff"
    /\ lhs.era = "Past" /\ rhs.era = "Present"
    /\ ~IsZero(lhs)
    /\ fres.val.neg
    /\ ~SubInstant(rhs, lhs).val.neg

\* C7: from_precise_seconds(s + n * 1e-9, p) gives back Instant::new(s, n, p)
\* to within one nanosecond: same era, same seconds, nanoseconds at most 1 apart.
C7_RoundTrip ==
    op = "from_precise_seconds" =>
        /\ res.inst.era = lhs.era
        /\ res.inst.secs = lhs.secs
        /\ res.inst.nanos - lhs.nanos \in {-1, 0, 1}

\* C8: adding or subtracting the zero Duration returns the instant with
\* seconds, nanoseconds and stored era unchanged.
C8_AdditiveIdentity ==
    (op \in {"add", "sub"} /\ IsZero(delta)) =>
        /\ ~res.panicked
        /\ res.inst = lhs

C8_Witness ==
    /\ op = "add"
    /\ IsZero(delta)
    /\ IsZero(lhs) /\ lhs.era = "Past"
    /\ res.inst.era = "Past"

\* C9: <, <=, >, >= are era-major: a Past instant is strictly less than any
\* Present instant, and instants of one era are ordered by increasing
\* (seconds, nanoseconds) magnitude.
C9_EraMajorOrdering ==
    op = "cmp" =>
        /\ (lhs.era = "Past" /\ rhs.era = "Present") =>
               cres = [lt |-> TRUE, le |-> TRUE, gt |-> FALSE, ge |-> FALSE]
        /\ (lhs.era = "Present" /\ rhs.era = "Past") =>
               cres = [lt |-> FALSE, le |-> FALSE, gt |-> TRUE, ge |-> TRUE]
        /\ lhs.era = rhs.era =>
               cres = [lt |-> MagLess(lhs, rhs), le |-> ~MagLess(rhs, lhs),
                       gt |-> MagLess(rhs, lhs), ge |-> ~MagLess(lhs, rhs)]

C9_Witness ==
    /\ op = "cmp"
    /\ lhs.era = "Past" /\ rhs.era = "Present"
    /\ MagLess(rhs, lhs)
    /\ cres.lt

F64Negative(x) == x.neg /\ ~F64IsZero(x)

F64Positive(x) == ~x.neg /\ ~F64IsZero(x)

\* C11: the ordering is total, transitive and consistent with equality:
\* exactly one of i < j, i == j, i > j holds for all instants i and j.
C11_OrderConsistentWithEq ==
    op = "cmp" =>
        /\ \/ cres.lt /\ ~Eq(lhs, rhs) /\ ~cres.gt
           \/ ~cres.lt /\ Eq(lhs, rhs) /\ ~cres.gt
           \/ ~cres.lt /\ ~Eq(lhs, rhs) /\ cres.gt
        /\ \A k \in Instants : (cres.lt /\ Lt(rhs, k)) => Lt(lhs, k)

\* C12: when Add(i, d) or Subtract(i, d) with a non-zero d lands exactly on
\* the epoch (seconds and nanoseconds both 0), the stored era is Present.
C12_ZeroIsPresent ==
    (op \in {"add", "sub"} /\ ~IsZero(delta) /\ ~res.panicked /\ IsZero(res.inst)) =>
        res.inst.era = "Present"

\* C13: the ordering agrees with the sign of Instant - Instant:
\* i < j iff Subtract(i, j) < 0, and i > j iff Subtract(i, j) > 0.
C13_OrderAgreesWithDiff ==
    op = "diff" =>
        /\ Lt(lhs, rhs) <=> F64Negative(fres.val)
        /\ Gt(lhs, rhs) <=> F64Positive(fres.val)

====
